---------------------------- MODULE Spec2Model ----------------------------
(***************************************************************************)
(* Model of backend/main.go: the challenge-response login core.            *)
(*                                                                         *)
(* One worker (goroutine) serves one request at a time.  The registry      *)
(* (MemStorage) is shared; every MemStorage method is two steps, taking    *)
(* the RWMutex and then doing the map operation and releasing it (defer).  *)
(* Code that touches only the request's own locals between two registry    *)
(* calls is one step, evaluated in the order of the source.                *)
(*                                                                         *)
(* Strings are modelled as follows.  An address is one of a few literal    *)
(* strings, with ToLower and the address regexp given on them.  A nonce    *)
(* string is a sequence of one-character strings, so that big.Int.Text(10) *)
(* and the digits-only regexp are computed.  A signature string is a       *)
(* record of what hexutil.MustDecode and crypto.SigToPub read from it.     *)
(***************************************************************************)
EXTENDS Integers, Sequences, FiniteSets, Bags, TLC

\* ---------------------------------------------------------------- bounds
NumWorkers == 2     \* concurrent request workers
MaxReqs == 3        \* requests started in a run
MaxRand == 3        \* size of the entropy range: rand.Int draws from 0..MaxRand-1
MaxTicks == 1       \* clock advances in a run

Workers == 1..NumWorkers

\* --------------------------------------------------- net/http status codes
StatusOK == 200
StatusCreated == 201
StatusBadRequest == 400
StatusUnauthorized == 401
StatusNotFound == 404
StatusConflict == 409
StatusInternalServerError == 500

\* ------------------------------------------------------------- addresses
\* Two logical accounts, one of them also in its mixed-case spelling, and a
\* string that is no address.
LowerAddrs == {"0xab", "0xcd"}
ValidAddrs == LowerAddrs \cup {"0xAB"}
AddrInputs == ValidAddrs \cup {"0xzz"}

\* hexRegex.MatchString
HexRegexMatch(s) == s \in ValidAddrs

\* Mutant: the address is used in the case it was sent in.
ToLowerKeepsCase(s) == s

\* strings.ToLower
ToLower(s) == IF s = "0xAB" THEN "0xab" ELSE s

\* common.Address.Hex(): the checksummed (mixed-case) spelling of an account
ChecksumHex(k) == IF k = "0xab" THEN "0xAB" ELSE k

\* ----------------------------------------------------------------- nonces
Digits == <<"0", "1", "2", "3", "4", "5", "6", "7", "8", "9">>
DigitChars == {Digits[i] : i \in 1..10}

RECURSIVE Text10(_)
\* big.Int.Text(10)
Text10(n) == IF n < 10 THEN <<Digits[n + 1]>>
             ELSE Append(Text10(n \div 10), Digits[(n % 10) + 1])

\* nonceRegex.MatchString: ^[0-9]+$
NonceRegexMatch(s) == Len(s) > 0 /\ \A i \in 1..Len(s) : s[i] \in DigitChars

RandRange == 0..(MaxRand - 1)

\* What a client may send as nonce: any generated nonce, one with a leading
\* zero, and one that is not digits-only.
NonceInputs == {Text10(n) : n \in RandRange} \cup {<<"0", "1">>, <<"1", "x">>}

\* ------------------------------------------------------------------ users
\* User{}: the zero value that Get returns with ErrUserNotExists
ZeroUser == [Address |-> "", Nonce |-> <<>>]

User(a, n) == [Address |-> a, Nonce |-> n]


\* ------------------------------------------------------------- signatures
\* crypto.RecoveryIDOffset: the index of v in {r(32), s(32), v(1)}
RecoveryIDOffset == 64
\* crypto.SignatureLength
SignatureLength == 65

\* The private keys that sign, each named by the account it controls.
Keys == LowerAddrs

\* The recovery id of the signatures a key makes (either id occurs in practice;
\* here one key's signatures have id 0 and the other's id 1).
Par(k) == IF k = "0xab" THEN 0 ELSE 1

\* accounts.TextHash: the personal-sign hash of the message, injective in m
TextHash(m) == <<"Ethereum Signed Message", Len(m), m>>

\* A signature string as the code reads it: whether it is empty, whether it is
\* 0x-prefixed hex, the number of bytes it decodes to, the byte v at offset 64,
\* and, for the 64 bytes {r, s}, the key that made them ("none": not a
\* signature of any key) and the hash they sign.
NoSig == [enc |-> "unread", len |-> 0, v |-> 0, key |-> "none", msg |-> <<>>]
EmptySig == [enc |-> "empty", len |-> 0, v |-> 0, key |-> "none", msg |-> <<>>]
NotHexSig == [enc |-> "nothex", len |-> 0, v |-> 0, key |-> "none", msg |-> <<>>]
ShortSig == [enc |-> "hex", len |-> 64, v |-> 0, key |-> "none", msg |-> <<>>]
LongSig == [enc |-> "hex", len |-> 66, v |-> 27, key |-> "none", msg |-> <<>>]
GarbageSig == [enc |-> "hex", len |-> 65, v |-> 27, key |-> "none", msg |-> <<>>]

\* The signature of key k over the personal-sign hash of nonce n, sent with byte v.
Signed(k, n, v) == [enc |-> "hex", len |-> 65, v |-> v, key |-> k, msg |-> TextHash(n)]

\* What a wallet sends: v = 27 + recovery id.
WalletSig(k, n) == Signed(k, n, 27 + Par(k))

\* Other values of v a client may send: 26 (below the offset), the other
\* parity, and two above 28.
VariantVs == {26, 28, 29, 31}

\* The non-empty signature strings a client may send with nonce n.
SigInputs(n) ==
    {NotHexSig, ShortSig, LongSig, GarbageSig}
    \cup {WalletSig(k, Text10(m)) : k \in Keys, m \in RandRange}
    \cup {Signed("0xab", n, v) : v \in VariantVs}

\* sig[crypto.RecoveryIDOffset] -= 27 on a byte
SubV(sig) == [sig EXCEPT !.v = (sig.v - 27) % 256]

\* The address a signature recovers to over a hash it was not made for, or with
\* the other recovery id: some account nobody controls.
StrangerKey == "0xf0"

\* crypto.SigToPub(hash, sig) followed by crypto.PubkeyToAddress: the account
\* recovered, or an error (wrong length, recovery id not in 0..3, {r, s} that
\* recover no public key; ids 2 and 3 need r + N below the field prime, which
\* no signature in practice satisfies).
SigToPub(hash, sig) ==
    IF sig.len # SignatureLength THEN [err |-> TRUE, key |-> "none"]
    ELSE IF sig.v >= 4 THEN [err |-> TRUE, key |-> "none"]
    ELSE IF sig.key = "none" \/ sig.v >= 2 THEN [err |-> TRUE, key |-> "none"]
    ELSE IF sig.msg = hash /\ sig.v = Par(sig.key) THEN [err |-> FALSE, key |-> sig.key]
    ELSE [err |-> FALSE, key |-> StrangerKey]

\* ----------------------------------------------------------------- tokens
\* JwtHmacProvider.duration, in minutes (run: time.Minute*15)
duration == 15

\* The Authorization header: absent or shorter than "Bearer " (form "none"),
\* the prefix with nothing after it (form "empty"), or the prefix and a token.
NoTok == [form |-> "none", alg |-> "", mac |-> FALSE, sub |-> "", iat |-> 0, exp |-> 0]
EmptyTok == [form |-> "empty", alg |-> "", mac |-> FALSE, sub |-> "", iat |-> 0, exp |-> 0]

\* A string that is not three base64 segments of JSON.
GarbageTok == [form |-> "garbage", alg |-> "", mac |-> FALSE, sub |-> "", iat |-> 0, exp |-> 0]

\* Mutant: the subject is the checksummed spelling of the address.
CreateStandardRawCase(subject, t) ==
    [form |-> "jwt", alg |-> "HS256", mac |-> TRUE, sub |-> ChecksumHex(subject),
     iat |-> t, exp |-> t + duration]

\* JwtHmacProvider.CreateStandard at time t: HS256 over the registered claims,
\* MAC'd with the server secret.
CreateStandard(subject, t) ==
    [form |-> "jwt", alg |-> "HS256", mac |-> TRUE, sub |-> subject,
     iat |-> t, exp |-> t + duration]

\* jwt.SigningMethodHMAC: the algorithms the key function accepts
HmacFamily == {"HS256", "HS384", "HS512"}

\* Mutant: a Verify that does not look at the expiry.
VerifyNoExpiry(tok, t) ==
    IF tok.form # "jwt" THEN "ErrAuthError"
    ELSE IF tok.alg \notin HmacFamily THEN "ErrAuthError"
    ELSE IF ~tok.mac THEN "ErrAuthError"
    ELSE "nil"

\* Mutant: a Verify that does not check the MAC.
VerifyNoMac(tok, t) ==
    IF tok.form # "jwt" THEN "ErrAuthError"
    ELSE IF tok.alg \notin HmacFamily THEN "ErrAuthError"
    ELSE IF ~(t < tok.exp) \/ t < tok.iat THEN "ErrAuthError"
    ELSE "nil"

\* JwtHmacProvider.Verify at time t: parse, the key function's check of the
\* algorithm, the MAC, then RegisteredClaims.Valid (exp: now before exp; iat:
\* not before it was issued).
Verify(tok, t) ==
    IF tok.form # "jwt" THEN "ErrAuthError"
    ELSE IF tok.alg \notin HmacFamily THEN "ErrAuthError"
    ELSE IF ~tok.mac THEN "ErrAuthError"
    ELSE IF ~(t < tok.exp) \/ t < tok.iat THEN "ErrAuthError"
    ELSE "nil"

\* What a client without the secret can make of a token it holds: the same
\* claims under another algorithm, or changed claims, neither with a valid MAC.
Forgeries(tok) ==
    {[tok EXCEPT !.alg = "none", !.mac = FALSE],
     [tok EXCEPT !.exp = tok.exp + duration, !.mac = FALSE]}

\* ------------------------------------------------------------------ state
VARIABLES
    users,      \* MemStorage.users: lowercase address -> User
    lock,       \* MemStorage.lock: the writer (0: none) and the readers holding it
    pc,         \* where each worker is in its handler
    req,        \* the request each worker serves
    user,       \* each worker's local User (u in RegisterHandler, user in Authenticate)
    hist,       \* per request: registry reads and writes done, what had happened at its start
    drawn,      \* the values the entropy source has returned
    nreq,       \* requests started
    now,        \* the clock, in minutes
    ticks,      \* clock advances made
    issued,     \* the tokens CreateStandard has returned
    wins,       \* bag of <<address, nonce>>: the sign-ins answered with a token
    created,    \* bag of addresses: the registrations answered Created
    out         \* the response the last step wrote, with its request (NoOut: none)

vars == <<users, lock, pc, req, user, hist, drawn, nreq, now, ticks, issued, wins,
          created, out>>

NoReq == [op |-> "none", addr |-> "", nonce |-> <<>>, sig |-> NoSig, tok |-> NoTok]

\* read, wrote: the request has read / written the registry.  after: at its
\* start the same registration had been answered Created, or the same (address,
\* nonce) had been answered with a token.  seen: the record Authenticate's Get
\* returned.  stage: the protocol state reached.  at: the time at which
\* AuthMiddleware called Verify.
NoHist == [read |-> FALSE, wrote |-> FALSE, after |-> FALSE, seen |-> ZeroUser,
           stage |-> "Requested", at |-> 0]

\* status 0: no response was written (the handler panicked; net/http recovers
\* the panic and drops the connection).
NoOut == [w |-> 0, req |-> NoReq, hist |-> NoHist, status |-> 0, err |-> "nil",
          token |-> NoTok, user |-> ZeroUser]

Init ==
    /\ users = [a \in {} |-> ZeroUser]
    /\ lock = [w |-> 0, r |-> {}]
    /\ pc = [w \in Workers |-> "idle"]
    /\ req = [w \in Workers |-> NoReq]
    /\ user = [w \in Workers |-> ZeroUser]
    /\ hist = [w \in Workers |-> NoHist]
    /\ drawn = {}
    /\ nreq = 0
    /\ now = 0
    /\ ticks = 0
    /\ issued = {}
    /\ wins = EmptyBag
    /\ created = EmptyBag
    /\ out = NoOut

\* ------------------------------------------------------------- MemStorage
Put(m, u) == [a \in DOMAIN m \cup {u.Address} |-> IF a = u.Address THEN u ELSE m[a]]

\* Mutant: an insert that does not look for the key first.
CreateOverwrites(m, u) == [users |-> Put(m, u), err |-> "nil"]

\* MemStorage.CreateIfNotExists, the body under the lock
CreateIfNotExists(m, u) ==
    IF u.Address \in DOMAIN m THEN [users |-> m, err |-> "ErrUserExists"]
    ELSE [users |-> Put(m, u), err |-> "nil"]

\* MemStorage.Get, the body under the read lock
Get(m, address) ==
    IF address \notin DOMAIN m THEN [user |-> ZeroUser, err |-> "ErrUserNotExists"]
    ELSE [user |-> m[address], err |-> "nil"]

\* Mutant: an update that is lost (the map is not written).
UpdateLost(m, u) == m

\* Mutant: an update that writes the nonce to every record.
UpdateAll(m, u) == [a \in DOMAIN m \cup {u.Address} |-> [Address |-> a, Nonce |-> u.Nonce]]

\* MemStorage.Update, the body under the lock
Update(m, u) == Put(m, u)

\* sync.RWMutex: RLock waits for the writer, Lock for the writer and the readers
CanRLock == lock.w = 0
\* Mutant: a writer that does not wait for the readers to leave.
CanLockIgnoresReaders == lock.w = 0
CanLock == lock.w = 0 /\ lock.r = {}

\* m.lock.RLock() of Get
RLock(w) ==
    /\ pc[w] = "get"
    /\ CanRLock
    /\ lock' = [lock EXCEPT !.r = @ \cup {w}]
    /\ pc' = [pc EXCEPT ![w] = "get_cs"]
    /\ out' = NoOut
    /\ UNCHANGED <<users, req, user, hist, drawn, nreq, now, ticks, issued, wins,
                   created>>

\* m.lock.Lock() of CreateIfNotExists and Update
Lock(w) ==
    /\ pc[w] \in {"create", "upd"}
    /\ CanLock
    /\ lock' = [lock EXCEPT !.w = w]
    /\ pc' = [pc EXCEPT ![w] = IF pc[w] = "create" THEN "create_cs" ELSE "upd_cs"]
    /\ out' = NoOut
    /\ UNCHANGED <<users, req, user, hist, drawn, nreq, now, ticks, issued, wins,
                   created>>

\* defer m.lock.RUnlock() / defer m.lock.Unlock()
RUnlock(w) == lock' = [lock EXCEPT !.r = @ \ {w}]
Unlock(w) == lock' = [lock EXCEPT !.w = 0]

\* ---------------------------------------------------------------- helpers
\* The handler returns: the response is written (or, status 0, the panic
\* unwinds) and the worker is free again.
Finish(w, r, h, status, err, tok, u) ==
    /\ out' = [w |-> w, req |-> r, hist |-> h, status |-> status, err |-> err,
               token |-> tok, user |-> u]
    /\ pc' = [pc EXCEPT ![w] = "idle"]
    /\ req' = [req EXCEPT ![w] = NoReq]
    /\ user' = [user EXCEPT ![w] = ZeroUser]
    /\ hist' = [hist EXCEPT ![w] = NoHist]

\* The handler goes on to position p with local user u.
Goto(w, p, r, h, u) ==
    /\ pc' = [pc EXCEPT ![w] = p]
    /\ req' = [req EXCEPT ![w] = r]
    /\ user' = [user EXCEPT ![w] = u]
    /\ hist' = [hist EXCEPT ![w] = h]
    /\ out' = NoOut

\* A worker takes the next request.
Accept(w) ==
    /\ pc[w] = "idle"
    /\ nreq < MaxReqs
    /\ nreq' = nreq + 1

\* GetNonce: the values rand.Int may return.  The range stands for
\* [0, 2^130 - 1); a value is not returned twice (no collisions), and the
\* call may instead fail with the entropy source's error.
Fresh == RandRange \ drawn

\* --------------------------------------------------------------- Register
\* RegisterPayload.Validate
RegisterValidate(a) == IF ~HexRegexMatch(a) THEN "ErrInvalidAddress" ELSE "nil"

\* RegisterHandler's switch on the error of CreateIfNotExists
RegisterStatus(err) ==
    IF err = "nil" THEN StatusCreated
    ELSE IF err = "ErrUserExists" THEN StatusConflict
    ELSE StatusInternalServerError

\* RegisterHandler up to the call of CreateIfNotExists: validate, GetNonce,
\* build the user with the lowercased address.
RegisterHandler(w) ==
    /\ Accept(w)
    /\ \E a \in AddrInputs :
         LET r == [NoReq EXCEPT !.op = "register", !.addr = a]
             h == [NoHist EXCEPT !.after = BagIn(ToLower(a), created)]
         IN  IF RegisterValidate(a) # "nil"
             THEN /\ Finish(w, r, h, StatusBadRequest, RegisterValidate(a), NoTok, ZeroUser)
                  /\ drawn' = drawn
             ELSE \/ /\ Finish(w, r, h, StatusInternalServerError, "ErrEntropy", NoTok, ZeroUser)
                     /\ drawn' = drawn
                  \/ \E n \in Fresh :
                       /\ drawn' = drawn \cup {n}
                       /\ Goto(w, "create", r, h, User(ToLower(a), Text10(n)))
    /\ UNCHANGED <<users, lock, now, ticks, issued, wins, created>>

\* CreateIfNotExists under the lock, and RegisterHandler's response
RegisterCreate(w) ==
    /\ pc[w] = "create_cs"
    /\ LET res == CreateIfNotExists(users, user[w])
           h == [hist[w] EXCEPT !.read = TRUE, !.wrote = (res.err = "nil")]
       IN  /\ users' = res.users
           /\ Unlock(w)
           /\ created' = IF res.err = "nil" THEN created (+) SetToBag({user[w].Address})
                         ELSE created
           /\ Finish(w, req[w], h, RegisterStatus(res.err), res.err, NoTok, ZeroUser)
    /\ UNCHANGED <<drawn, nreq, now, ticks, issued, wins>>

\* -------------------------------------------------------------- UserNonce
\* UserNonceHandler up to the call of Get
UserNonceHandler(w) ==
    /\ Accept(w)
    /\ \E a \in AddrInputs :
         LET r == [NoReq EXCEPT !.op = "nonce", !.addr = a]
         IN  IF ~HexRegexMatch(a)
             THEN Finish(w, r, NoHist, StatusBadRequest, "ErrInvalidAddress", NoTok, ZeroUser)
             ELSE Goto(w, "get", r, NoHist, ZeroUser)
    /\ UNCHANGED <<users, lock, drawn, now, ticks, issued, wins, created>>

\* Get under the read lock, and UserNonceHandler's response
UserNonceGet(w) ==
    /\ pc[w] = "get_cs"
    /\ req[w].op = "nonce"
    /\ LET res == Get(users, ToLower(req[w].addr))
           h == [hist[w] EXCEPT !.read = TRUE]
       IN  /\ RUnlock(w)
           /\ IF res.err # "nil"
              THEN Finish(w, req[w], h, StatusNotFound, res.err, NoTok, ZeroUser)
              ELSE Finish(w, req[w], h, StatusOK, "nil", NoTok, res.user)
    /\ UNCHANGED <<users, drawn, nreq, now, ticks, issued, wins, created>>

\* ----------------------------------------------------------------- SignIn
\* Mutant: a Validate that does not look at the nonce.
SigninValidateNoNonce(a, n, sg) ==
    IF ~HexRegexMatch(a) THEN "ErrInvalidAddress"
    ELSE IF sg.enc = "empty" THEN "ErrMissingSig"
    ELSE "nil"

\* SigninPayload.Validate
SigninValidate(a, n, sg) ==
    IF ~HexRegexMatch(a) THEN "ErrInvalidAddress"
    ELSE IF ~NonceRegexMatch(n) THEN "ErrInvalidNonce"
    ELSE IF sg.enc = "empty" THEN "ErrMissingSig"
    ELSE "nil"

\* Mutant: the switch without its default case, so that an error other than
\* ErrAuthError falls through to the success path.
SigninStatusNoDefault(err) ==
    IF err = "ErrAuthError" THEN StatusUnauthorized ELSE StatusOK

\* SigninHandler's switch on the error of Authenticate
SigninStatus(err) ==
    IF err = "nil" THEN StatusOK
    ELSE IF err = "ErrAuthError" THEN StatusUnauthorized
    ELSE StatusInternalServerError

\* SigninHandler up to the call of Authenticate.  Validate reads of the
\* signature string only whether it is empty; the rest of it is read first
\* by Authenticate, and the model fixes it there.
SigninHandler(w) ==
    /\ Accept(w)
    /\ \E a \in AddrInputs, n \in NonceInputs, sg \in {EmptySig, NoSig} :
         LET r == [NoReq EXCEPT !.op = "signin", !.addr = a, !.nonce = n, !.sig = sg]
             h == [NoHist EXCEPT !.after = BagIn(<<ToLower(a), n>>, wins)]
         IN  IF SigninValidate(a, n, sg) # "nil"
             THEN Finish(w, r, h, StatusBadRequest, SigninValidate(a, n, sg), NoTok, ZeroUser)
             ELSE Goto(w, "get", r, h, ZeroUser)
    /\ UNCHANGED <<users, lock, drawn, now, ticks, issued, wins, created>>

\* Authenticate: storage.Get(address) under the read lock, and the return of
\* its error
AuthenticateGet(w) ==
    /\ pc[w] = "get_cs"
    /\ req[w].op = "signin"
    /\ LET res == Get(users, ToLower(req[w].addr))
           h == [hist[w] EXCEPT !.read = TRUE, !.seen = res.user]
       IN  /\ RUnlock(w)
           /\ IF res.err # "nil"
              THEN Finish(w, req[w], h, SigninStatus(res.err), res.err, NoTok, ZeroUser)
              ELSE Goto(w, "verify", req[w], h, res.user)
    /\ UNCHANGED <<users, drawn, nreq, now, ticks, issued, wins, created>>

\* Mutant: the presented nonce is not compared with the stored one.
AuthCheckAnyNonce(u, nonce, sg) ==
    IF sg.enc # "hex" THEN [err |-> "panic", stage |-> "NonceChecked"]
    ELSE IF ~(RecoveryIDOffset < sg.len) THEN [err |-> "panic", stage |-> "NonceChecked"]
    ELSE LET rec == SigToPub(TextHash(nonce), SubV(sg))
         IN  IF rec.err THEN [err |-> "ErrRecover", stage |-> "NonceChecked"]
             ELSE IF u.Address # ToLower(ChecksumHex(rec.key))
                  THEN [err |-> "ErrAuthError", stage |-> "SignatureRecovered"]
                  ELSE [err |-> "nil", stage |-> "AddressMatched"]

\* Mutant: the recovered address is not compared with the user's.
AuthCheckNoAddressMatch(u, nonce, sg) ==
    IF u.Nonce # nonce THEN [err |-> "ErrAuthError", stage |-> "Requested"]
    ELSE IF sg.enc # "hex" THEN [err |-> "panic", stage |-> "NonceChecked"]
    ELSE IF ~(RecoveryIDOffset < sg.len) THEN [err |-> "panic", stage |-> "NonceChecked"]
    ELSE IF SigToPub(TextHash(nonce), SubV(sg)).err
         THEN [err |-> "ErrRecover", stage |-> "NonceChecked"]
         ELSE [err |-> "nil", stage |-> "AddressMatched"]

\* Mutant: the signature is decoded before the nonce is compared.
AuthCheckDecodeFirst(u, nonce, sg) ==
    IF sg.enc # "hex" THEN [err |-> "panic", stage |-> "Requested"]
    ELSE IF ~(RecoveryIDOffset < sg.len) THEN [err |-> "panic", stage |-> "Requested"]
    ELSE IF u.Nonce # nonce THEN [err |-> "ErrAuthError", stage |-> "Requested"]
    ELSE LET rec == SigToPub(TextHash(nonce), SubV(sg))
         IN  IF rec.err THEN [err |-> "ErrRecover", stage |-> "NonceChecked"]
             ELSE IF u.Address # ToLower(ChecksumHex(rec.key))
                  THEN [err |-> "ErrAuthError", stage |-> "SignatureRecovered"]
                  ELSE [err |-> "nil", stage |-> "AddressMatched"]

\* Authenticate from the nonce comparison to the address comparison, in the
\* order of the source: the error returned ("panic": hexutil.MustDecode or
\* the index into a slice shorter than 65 bytes panicked) and the protocol
\* state reached.
AuthCheck(u, nonce, sg) ==
    IF u.Nonce # nonce THEN [err |-> "ErrAuthError", stage |-> "Requested"]
    ELSE IF sg.enc # "hex" THEN [err |-> "panic", stage |-> "NonceChecked"]
    ELSE IF ~(RecoveryIDOffset < sg.len) THEN [err |-> "panic", stage |-> "NonceChecked"]
    ELSE LET rec == SigToPub(TextHash(nonce), SubV(sg))
         IN  IF rec.err THEN [err |-> "ErrRecover", stage |-> "NonceChecked"]
             ELSE IF u.Address # ToLower(ChecksumHex(rec.key))
                  THEN [err |-> "ErrAuthError", stage |-> "SignatureRecovered"]
                  ELSE [err |-> "nil", stage |-> "AddressMatched"]

\* Authenticate after Get: the checks, then GetNonce for the rotation
AuthenticateVerify(w) ==
    /\ pc[w] = "verify"
    /\ \E sg \in SigInputs(req[w].nonce) :
         LET r == [req[w] EXCEPT !.sig = sg]
             res == AuthCheck(user[w], r.nonce, sg)
             h == [hist[w] EXCEPT !.stage = res.stage]
         IN  IF res.err = "panic"
             THEN /\ Finish(w, r, h, 0, "panic", NoTok, ZeroUser)
                  /\ drawn' = drawn
             ELSE IF res.err # "nil"
             THEN /\ Finish(w, r, h, SigninStatus(res.err), res.err, NoTok, ZeroUser)
                  /\ drawn' = drawn
             ELSE \/ /\ Finish(w, r, h, SigninStatus("ErrEntropy"), "ErrEntropy", NoTok, ZeroUser)
                     /\ drawn' = drawn
                  \/ \E n \in Fresh :
                       /\ drawn' = drawn \cup {n}
                       /\ Goto(w, "upd", r, h, [user[w] EXCEPT !.Nonce = Text10(n)])
    /\ UNCHANGED <<users, lock, nreq, now, ticks, issued, wins, created>>

\* Authenticate: storage.Update(user) under the lock
AuthenticateUpdate(w) ==
    /\ pc[w] = "upd_cs"
    /\ users' = Update(users, user[w])
    /\ Unlock(w)
    /\ Goto(w, "token", req[w], [hist[w] EXCEPT !.wrote = TRUE, !.stage = "NonceRotated"],
            user[w])
    /\ UNCHANGED <<drawn, nreq, now, ticks, issued, wins, created>>

\* SigninHandler after Authenticate returned nil: CreateStandard and the
\* response.  (Signing HS256 with a []byte key does not fail.)
SigninToken(w) ==
    /\ pc[w] = "token"
    /\ LET tok == CreateStandard(user[w].Address, now)
       IN  /\ issued' = issued \cup {tok}
           /\ wins' = wins (+) SetToBag({<<ToLower(req[w].addr), req[w].nonce>>})
           /\ Finish(w, req[w], hist[w], StatusOK, "nil", tok, ZeroUser)
    /\ UNCHANGED <<users, lock, drawn, nreq, now, ticks, created>>

\* -------------------------------------------------------------- Authorize
\* The headers a client may send: none, the bare prefix, garbage, a token the
\* server issued, or what it can make of one without the secret.
TokInputs ==
    {NoTok, EmptyTok, GarbageTok} \cup issued \cup UNION {Forgeries(t) : t \in issued}

\* AuthMiddleware up to the call of Get: the header's length, the token's,
\* and Verify
AuthMiddleware(w) ==
    /\ Accept(w)
    /\ \E t \in TokInputs :
         LET r == [NoReq EXCEPT !.op = "authorize", !.tok = t]
             h == [NoHist EXCEPT !.at = now]
         IN  IF t.form \in {"none", "empty"}
             THEN Finish(w, r, h, StatusUnauthorized, "nil", NoTok, ZeroUser)
             ELSE IF Verify(t, now) # "nil"
             THEN Finish(w, r, h, StatusUnauthorized, Verify(t, now), NoTok, ZeroUser)
             ELSE Goto(w, "get", r, h, ZeroUser)
    /\ UNCHANGED <<users, lock, drawn, now, ticks, issued, wins, created>>

\* Get(claims.Subject) under the read lock, then the user goes into the
\* request context and WelcomeHandler answers
AuthMiddlewareGet(w) ==
    /\ pc[w] = "get_cs"
    /\ req[w].op = "authorize"
    /\ LET res == Get(users, req[w].tok.sub)
           h == [hist[w] EXCEPT !.read = TRUE]
       IN  /\ RUnlock(w)
           /\ IF res.err # "nil"
              THEN Finish(w, req[w], h, StatusUnauthorized, res.err, NoTok, ZeroUser)
              ELSE Finish(w, req[w], h, StatusOK, "nil", NoTok, res.user)
    /\ UNCHANGED <<users, drawn, nreq, now, ticks, issued, wins, created>>

\* ------------------------------------------------------------------ clock
\* Time passes: a minute, the tokens' lifetime, or a minute more than that.
Tick ==
    /\ ticks < MaxTicks
    /\ ticks' = ticks + 1
    /\ \E d \in {1, duration, duration + 1} : now' = now + d
    /\ out' = NoOut
    /\ UNCHANGED <<users, lock, pc, req, user, hist, drawn, nreq, issued, wins,
                   created>>

Next ==
    \/ \E w \in Workers :
         \/ RegisterHandler(w)
         \/ RegisterCreate(w)
         \/ UserNonceHandler(w)
         \/ UserNonceGet(w)
         \/ SigninHandler(w)
         \/ AuthenticateGet(w)
         \/ AuthenticateVerify(w)
         \/ AuthenticateUpdate(w)
         \/ SigninToken(w)
         \/ AuthMiddleware(w)
         \/ AuthMiddlewareGet(w)
         \/ RLock(w)
         \/ Lock(w)
    \/ Tick

Spec == Init /\ [][Next]_vars

\* ================================================================ claims
\* Of the response the last step wrote:
IsSignin == out.req.op = "signin"
IsRegister == out.req.op = "register"

\* the sign-in passed input validation, found the user, and presented the
\* nonce that its registry read returned
PresentedCurrentNonce ==
    /\ IsSignin
    /\ out.hist.read
    /\ out.hist.seen # ZeroUser
    /\ out.hist.seen.Nonce = out.req.nonce

\* what the signature of the response's request recovers to
Recovered == SigToPub(TextHash(out.req.nonce), SubV(out.req.sig))

\* a signature that is not decodable hex, not 65 bytes, or recovers no key
Malformed(sg, nonce) ==
    \/ sg.enc = "nothex"
    \/ sg.enc = "hex" /\ sg.len # SignatureLength
    \/ sg.enc = "hex" /\ sg.len = SignatureLength /\ SigToPub(TextHash(nonce), SubV(sg)).err

ValidationErrors == {"ErrInvalidAddress", "ErrInvalidNonce", "ErrMissingSig"}

\* C1: of the sign-ins that present the same stored nonce of an address with a
\* valid signature, at most one is answered with a token (stated of the
\* code, which answers two racing ones).
C1_AtMostOneSuccess ==
    \A p \in BagToSet(wins) : CopiesIn(p, wins) <= 1

\* C2: a sign-in (with a signature) for address A that starts after a sign-in
\* for A presenting the same nonce was answered with a token is answered
\* Unauthorized with ErrAuthError and gets no token, whatever happened between.
C2_ReplayRejected ==
    (IsSignin /\ out.hist.after /\ out.req.sig.enc # "empty")
        => /\ out.status = StatusUnauthorized
           /\ out.err = "ErrAuthError"
           /\ out.token = NoTok

\* The exact triple (A, n, wallet signature of n by A's key) was answered with
\* a token, and its replay is answered Unauthorized.
C2_Witness ==
    /\ IsSignin
    /\ out.hist.after
    /\ out.req.sig = WalletSig(ToLower(out.req.addr), out.req.nonce)
    /\ out.status = StatusUnauthorized

\* C3: Register is an atomic check-and-insert.  For every address exactly one
\* registration has been answered Created if the address is registered, and
\* none otherwise; a registration that reaches CreateIfNotExists is answered
\* Created (and inserted) or Conflict with ErrUserExists (and did not write);
\* one that starts after a Created for the same address, in either letter
\* case, is answered Conflict.
C3_RegisterAtomic ==
    /\ \A a \in LowerAddrs :
         CopiesIn(a, created) = IF a \in DOMAIN users THEN 1 ELSE 0
    /\ (IsRegister /\ out.hist.read) =>
         \/ out.status = StatusCreated /\ out.err = "nil" /\ out.hist.wrote
         \/ out.status = StatusConflict /\ out.err = "ErrUserExists" /\ ~out.hist.wrote
    /\ (IsRegister /\ out.hist.read /\ out.hist.after) => out.status = StatusConflict

\* An address registered in lower case, then a Register of its mixed-case
\* spelling answered Conflict.
C3_Witness ==
    /\ IsRegister
    /\ out.req.addr = "0xAB"
    /\ out.hist.after
    /\ out.status = StatusConflict
    /\ CopiesIn("0xab", created) = 1

\* C4: a sign-in presenting the current nonce with a malformed signature is
\* answered with a client error (a 4xx status), and writes nothing (stated of
\* the code, which panics or answers 500).
C4_MalformedSigClientError ==
    (PresentedCurrentNonce /\ Malformed(out.req.sig, out.req.nonce))
        => /\ out.status >= 400 /\ out.status < 500
           /\ ~out.hist.wrote

\* C5: a sign-in with a well-formed address that is not registered fails with
\* ErrUserNotExists and is answered Unauthorized or BadRequest (stated of the
\* code, which answers 500).
C5_UnknownUserDeclaredOutcome ==
    (IsSignin /\ out.hist.read /\ out.hist.seen = ZeroUser)
        => /\ out.err = "ErrUserNotExists"
           /\ out.status \in {StatusUnauthorized, StatusBadRequest}
           /\ ~out.hist.wrote

\* C6: a sign-in presenting the current nonce with a well-formed signature
\* that recovers to another address is answered Unauthorized with
\* ErrAuthError, gets no token and writes nothing.
C6_WrongSignerUnauthorized ==
    (PresentedCurrentNonce
       /\ ~Malformed(out.req.sig, out.req.nonce)
       /\ ToLower(ChecksumHex(Recovered.key)) # ToLower(out.req.addr))
        => /\ out.status = StatusUnauthorized
           /\ out.err = "ErrAuthError"
           /\ out.token = NoTok
           /\ ~out.hist.wrote

\* The current nonce of 0xab signed by the key of 0xcd, answered Unauthorized.
C6_Witness ==
    /\ PresentedCurrentNonce
    /\ ToLower(out.req.addr) = "0xab"
    /\ out.req.sig = WalletSig("0xcd", out.req.nonce)
    /\ out.status = StatusUnauthorized

\* the request's input is malformed
MalformedInput(r) ==
    \/ r.op \in {"register", "nonce"} /\ ~HexRegexMatch(r.addr)
    \/ r.op = "signin"
         /\ (~HexRegexMatch(r.addr) \/ ~NonceRegexMatch(r.nonce) \/ r.sig.enc = "empty")

\* C7: a Register, GetNonce or SignIn with malformed input is answered
\* BadRequest with a validation error by a step that leaves the registry as it
\* was, without having read or written the registry.
C7_MalformedInputNoEffect ==
    [][MalformedInput(out'.req)
         => /\ out'.status = StatusBadRequest
            /\ out'.err \in ValidationErrors
            /\ ~out'.hist.read
            /\ ~out'.hist.wrote
            /\ users' = users]_vars

\* A sign-in for a registered address with a nonce that is not digits-only,
\* answered BadRequest.
C7_Witness ==
    /\ IsSignin
    /\ ToLower(out.req.addr) \in DOMAIN users
    /\ ~NonceRegexMatch(out.req.nonce)
    /\ out.status = StatusBadRequest

\* the step is the registry write of a sign-in for address a (which is then
\* answered with a token)
RotationFor(a) ==
    \E w \in Workers :
        /\ pc[w] = "upd_cs"
        /\ pc'[w] = "token"
        /\ req[w].op = "signin"
        /\ ToLower(req[w].addr) = a
        /\ hist[w].stage = "AddressMatched"

\* C8: a registered address stays registered under the same address; its
\* record changes only in the rotation step of a sign-in for it that succeeds;
\* a sign-in that fails, a GetNonce, an Authorize and a Register answered
\* Conflict have written nothing and their last step leaves the registry as
\* it was.
C8_OnlySuccessRotates ==
    [][/\ \A a \in DOMAIN users :
            /\ a \in DOMAIN users'
            /\ users'[a].Address = a
            /\ users'[a] # users[a] => RotationFor(a)
       /\ (\/ out'.req.op = "signin" /\ out'.status # StatusOK
           \/ out'.req.op \in {"nonce", "authorize"}
           \/ out'.req.op = "register" /\ out'.status = StatusConflict)
            => ~out'.hist.wrote /\ users' = users]_vars

\* Two addresses are registered, one has had its nonce rotated by a sign-in
\* and the other still has a nonce no sign-in has consumed.
C8_Witness ==
    /\ DOMAIN users = LowerAddrs
    /\ IsSignin
    /\ out.status = StatusOK
    /\ users[ToLower(out.req.addr)].Nonce # out.req.nonce
    /\ \A p \in BagToSet(wins) : p[1] = ToLower(out.req.addr)

\* C9: a sign-in whose nonce and signature checks passed and whose GetNonce
\* failed is answered 500 without a token, has written nothing, and the step
\* leaves the registry and the issued tokens as they were.
C9_RotationFailure ==
    [][(out'.req.op = "signin" /\ out'.err = "ErrEntropy")
         => /\ out'.hist.stage = "AddressMatched"
            /\ out'.status = StatusInternalServerError
            /\ out'.token = NoTok
            /\ ~out'.hist.wrote
            /\ users' = users
            /\ issued' = issued]_vars

\* Such a sign-in, with the stored nonce still the one it presented.
C9_Witness ==
    /\ PresentedCurrentNonce
    /\ out.err = "ErrEntropy"
    /\ users[ToLower(out.req.addr)].Nonce = out.req.nonce

\* C10: a sign-in for a registered address whose nonce differs from the one
\* its registry read returned is answered Unauthorized with ErrAuthError
\* before the signature is decoded, whatever the signature.
C10_NonceCheckedFirst ==
    (IsSignin /\ out.hist.read /\ out.hist.seen # ZeroUser
       /\ out.hist.seen.Nonce # out.req.nonce)
        => /\ out.status = StatusUnauthorized
           /\ out.err = "ErrAuthError"
           /\ out.hist.stage = "Requested"

\* A stale nonce with a signature that is not hex, answered Unauthorized.
C10_Witness ==
    /\ IsSignin
    /\ out.hist.seen # ZeroUser
    /\ out.hist.seen.Nonce # out.req.nonce
    /\ out.req.sig = NotHexSig
    /\ out.status = StatusUnauthorized

IsAuthorize == out.req.op = "authorize"

\* the Authorize presented a token that CreateStandard returned
PresentedIssued == IsAuthorize /\ out.req.tok \in issued

\* C11 as stated: a token carries exp = iat + duration; an Authorize with an
\* issued token at a time not after exp resolves to the subject's record as
\* stored, and one after exp is answered Unauthorized (stated of the code,
\* which rejects the token at exp itself).
C11_ValidThroughExpiry ==
    /\ \A t \in issued : t.exp = t.iat + duration
    /\ (PresentedIssued /\ out.hist.at <= out.req.tok.exp)
         => /\ out.status = StatusOK
            /\ out.req.tok.sub \in DOMAIN users
            /\ out.user = users[out.req.tok.sub]
    /\ (PresentedIssued /\ out.hist.at > out.req.tok.exp)
         => out.status = StatusUnauthorized

\* C11 as amended: a token carries exp = iat + duration; an Authorize with an
\* issued token verified at a time before exp resolves to the subject's
\* record as stored when the registry is read, and one verified at exp or
\* later is answered Unauthorized without a registry read.
C11_ValidBeforeExpiry ==
    /\ \A t \in issued : t.exp = t.iat + duration
    /\ (PresentedIssued /\ out.hist.at < out.req.tok.exp)
         => /\ out.status = StatusOK
            /\ out.req.tok.sub \in DOMAIN users
            /\ out.user = users[out.req.tok.sub]
    /\ (PresentedIssued /\ out.hist.at >= out.req.tok.exp)
         => out.status = StatusUnauthorized /\ ~out.hist.read

\* A token presented after it was issued and before it expires, resolved to
\* the record stored for its subject.
C11_Witness ==
    /\ PresentedIssued
    /\ out.req.tok.iat < out.hist.at
    /\ out.hist.at < out.req.tok.exp
    /\ out.status = StatusOK
    /\ out.user = users[out.req.tok.sub]

\* what Verify must reject: not a JWT, an algorithm outside the HMAC family,
\* no valid MAC under the server secret, or verified at exp or later
Unverifiable(tok, t) ==
    \/ tok.form # "jwt"
    \/ tok.alg \notin HmacFamily
    \/ ~tok.mac
    \/ t >= tok.exp

\* C12: an Authorize whose token is malformed, names an algorithm outside the
\* HMAC family, has a bad signature or is expired is answered Unauthorized
\* with the one ErrAuthError and without a registry read; an Authorize gets
\* past Verify (and reads the registry) only with a well-formed, unexpired
\* token that the server MAC'd.
C12_VerifyFailsClosed ==
    /\ (IsAuthorize /\ out.req.tok.form \notin {"none", "empty"}
          /\ Unverifiable(out.req.tok, out.hist.at))
         => /\ out.status = StatusUnauthorized
            /\ out.err = "ErrAuthError"
            /\ ~out.hist.read
            /\ out.user = ZeroUser
    /\ \A w \in Workers :
         (req[w].op = "authorize" /\ pc[w] # "idle")
           => ~Unverifiable(req[w].tok, hist[w].at) /\ req[w].tok \in issued
    /\ (IsAuthorize /\ out.hist.read)
         => ~Unverifiable(out.req.tok, out.hist.at) /\ out.req.tok \in issued

\* The claims of an issued token under the algorithm "none", presented before
\* the token expires and answered Unauthorized without a registry read.
C12_Witness ==
    /\ IsAuthorize
    /\ out.req.tok.alg = "none"
    /\ [out.req.tok EXCEPT !.alg = "HS256", !.mac = TRUE] \in issued
    /\ out.hist.at < out.req.tok.exp
    /\ out.status = StatusUnauthorized
    /\ ~out.hist.read

\* C13: every registry key is a lowercase address and is the Address of the
\* record stored under it, so no two records denote one account; a Register,
\* GetNonce or SignIn that reached the registry acted on the record under the
\* lowercased address of its request, whatever the letter case sent.
C13_LowercaseKeys ==
    /\ DOMAIN users \subseteq LowerAddrs
    /\ \A a \in DOMAIN users : users[a].Address = a
    /\ \A w \in Workers :
         /\ pc[w] \in {"create", "create_cs"} => user[w].Address \in LowerAddrs
         /\ pc[w] \in {"verify", "upd", "upd_cs", "token"}
              => user[w].Address \in LowerAddrs /\ user[w].Address \in DOMAIN users
    /\ (out.req.op = "nonce" /\ out.status = StatusOK)
         => /\ out.user.Address \in LowerAddrs
            /\ out.user = users[out.user.Address]
    /\ (IsRegister /\ out.status \in {StatusCreated, StatusConflict})
         => Cardinality({a \in DOMAIN users : out.req.addr \in {a, ChecksumHex(a)}}) = 1

\* The account registered as 0xab (the only record), its nonce fetched under
\* the spelling 0xAB.
C13_Witness ==
    /\ out.req.op = "nonce"
    /\ out.req.addr = "0xAB"
    /\ out.status = StatusOK
    /\ DOMAIN users = {"0xab"}
    /\ out.user = users["0xab"]

\* C14: a SignIn answers with success and a token only after the rotation of
\* the stored nonce has been committed by MemStorage.Update: the attempt has
\* written the registry, its stage is NonceRotated, and the stored nonce is no
\* longer the one the request presented. A worker that has passed the rotation
\* step, and so is about to issue the token, has committed it too.
C14_SuccessAfterRotation ==
    /\ (IsSignin /\ (out.status = StatusOK \/ out.token # NoTok))
         => /\ out.status = StatusOK
            /\ out.token # NoTok
            /\ out.hist.wrote
            /\ out.hist.stage = "NonceRotated"
            /\ ToLower(out.req.addr) \in DOMAIN users
            /\ users[ToLower(out.req.addr)].Nonce # out.req.nonce
    /\ \A w \in Workers :
         pc[w] = "token"
           => /\ hist[w].wrote
              /\ hist[w].stage = "NonceRotated"
              /\ users[user[w].Address].Nonce # req[w].nonce

\* A SignIn answered with success and a token.
C14_Witness ==
    /\ IsSignin
    /\ out.status = StatusOK
    /\ out.token # NoTok
    /\ out.hist.stage = "NonceRotated"

\* The workers that hold the registry lock, shared or exclusive.
Holders == lock.r \cup (IF lock.w = 0 THEN {} ELSE {lock.w})

\* C15: a worker holds the registry lock only between acquiring it in
\* CreateIfNotExists, Get or Update and the single map operation of that
\* method; a worker validating input, generating a nonce, decoding a
\* signature and recovering its signer, or signing a token holds no lock. A
\* writer excludes every reader and every other writer.
C15_LockDiscipline ==
    /\ lock.w # 0 => lock.r = {}
    /\ lock.w \in Workers \cup {0}
    /\ \A w \in Workers :
         /\ w \in lock.r <=> pc[w] = "get_cs"
         /\ lock.w = w <=> pc[w] \in {"create_cs", "upd_cs"}
         /\ pc[w] \in {"idle", "create", "get", "verify", "upd", "token"}
              => w \notin Holders

\* One worker is between its registry read and its registry write, at the
\* signature check, while another holds the exclusive lock.
C15_Witness ==
    \E w1, w2 \in Workers :
        /\ w1 # w2
        /\ pc[w1] = "verify"
        /\ lock.w = w2
        /\ w1 \notin Holders

\* C16: every SignIn attempt ends in exactly one of two terminal states:
\* NonceRotated, answered with success and a token, or Rejected, answered with
\* a failure status and a cause, the registry not written (stated of the code,
\* where an attempt whose signature makes Authenticate panic ends with no
\* response and no cause).
C16_EndsInTerminalState ==
    IsSignin =>
        \/ /\ out.hist.stage = "NonceRotated"
           /\ out.status = StatusOK
           /\ out.err = "nil"
           /\ out.token # NoTok
        \/ /\ out.hist.stage # "NonceRotated"
           /\ out.status \in {StatusBadRequest, StatusUnauthorized,
                              StatusInternalServerError}
           /\ out.err \notin {"nil", "panic"}
           /\ out.token = NoTok
           /\ ~out.hist.wrote

\* C17: a sign-in presenting the current nonce with a 65-byte signature whose
\* v is neither 27 nor 28 does not authenticate and is rejected as a signature
\* format error, a client error (stated of the code, which answers 500 when
\* recovery fails on the id v - 27 mod 256).
C17_OtherVFormatError ==
    (/\ PresentedCurrentNonce
     /\ out.req.sig.enc = "hex"
     /\ out.req.sig.len = SignatureLength
     /\ out.req.sig.v \notin {27, 28})
        => /\ out.token = NoTok
           /\ ~out.hist.wrote
           /\ out.status >= 400 /\ out.status < 500

\* C18: a token with subject A is issued only by a SignIn for A whose registry
\* read found A's record, whose presented nonce is the nonce that read
\* returned, and whose signature recovers to A over the personal-sign hash of
\* that nonce: it was made by A's key for that nonce, not by another key and
\* not for another nonce. Every token ever issued comes from such an attempt.
C18_TokenOnlyForProvenOwner ==
    /\ out.token # NoTok => IsSignin
    /\ (IsSignin /\ out.token # NoTok)
         => /\ out.token.sub = ToLower(out.req.addr)
            /\ out.token.sub \in DOMAIN users
            /\ out.hist.read
            /\ out.hist.seen.Address = out.token.sub
            /\ out.hist.seen.Nonce = out.req.nonce
            /\ ~Recovered.err
            /\ ToLower(ChecksumHex(Recovered.key)) = out.token.sub
            /\ out.req.sig.key = out.token.sub
            /\ out.req.sig.msg = TextHash(out.req.nonce)
    /\ \A t \in issued : \E p \in BagToSet(wins) : p[1] = t.sub

\* A token for 0xab issued to a request that spelled the address 0xAB, while
\* the other account is registered too.
C18_Witness ==
    /\ IsSignin
    /\ out.token # NoTok
    /\ out.token.sub = "0xab"
    /\ out.req.addr = "0xAB"
    /\ "0xcd" \in DOMAIN users

\* C19: the subject of every issued token is the lowercase key of a record in
\* the registry, every record ever created is still there, and an Authorize
\* with an issued token that has not expired finds its user: it is never
\* answered Unauthorized for a missing user.
C19_IssuedTokensResolve ==
    /\ \A t \in issued :
         /\ t.sub \in LowerAddrs
         /\ t.sub \in DOMAIN users
         /\ users[t.sub].Address = t.sub
    /\ BagToSet(created) \subseteq DOMAIN users
    /\ PresentedIssued => out.err # "ErrUserNotExists"
    /\ (PresentedIssued /\ out.hist.at < out.req.tok.exp)
         => /\ out.hist.read
            /\ out.status # StatusUnauthorized

\* A token issued for 0xab, presented after the sign-in that issued it
\* rotated the account's nonce, and resolved to the account's record.
C19_Witness ==
    /\ PresentedIssued
    /\ out.hist.read
    /\ out.status = StatusOK
    /\ out.req.tok.sub = "0xab"
    /\ \E p \in BagToSet(wins) : p[1] = "0xab"
    /\ Cardinality(drawn) >= 2

=============================================================================
